---- MODULE Spec2Model ----
(***************************************************************************)
(* Model of src/src/main.ts: class ThreeJSScene, the scene lifecycle       *)
(* controller (constructor, onWindowResize, animate, dispose) together     *)
(* with the parts of the browser platform it drives: the map of animation  *)
(* frame callbacks, the event-listener registrations and the DOM parents.  *)
(*                                                                         *)
(* One JavaScript thread.  pc is the position inside animate(): 0 when no  *)
(* animate() call is on the stack, k when statement AnimateOrder[k] is the *)
(* next one to execute.  Platform events (animation frame, resize,         *)
(* pointer input) are dispatched only when pc = 0.  dispose() is a public  *)
(* method: it can be called between events and re-entrantly from the       *)
(* call-outs of a step in progress (stats.begin, controls.update,          *)
(* renderer.render, stats.end).                                            *)
(*                                                                         *)
(* Pixel ratios are counted in halves (2 is 1.0, 3 is 1.5, 4 is 2.0);      *)
(* rotations are counted in hundredths of a radian.                        *)
(***************************************************************************)
EXTENDS Integers, Sequences, FiniteSets, TLC

\* ------------------------------------------------------------------ bounds
MaxDim == 3
MaxFrames == 4
MaxDisposeCalls == 2

Dims == 1..MaxDim
Ratios == {2, 3, 4}

\* --------------------------------------------------------------- state
VARIABLES
  innerWidth, innerHeight, devicePixelRatio,  \* window
  pending, nextHandle, fired, cancelled,      \* animation frame callbacks
  listeners,                                  \* registered event listeners
  statsParent, rendererParent,                \* DOM parents
  scene, cameraAspect, renderer,              \* three.js objects
  cubeRotX, cubeRotY, inputPending,
  animationFrameId,
  phase, pc, stepLog,                         \* control position
  stepsStarted, faults, lastStepFaulted,      \* history
  disposeCalls, disposedMidStep, disposeFaulted, lastOp

vars == <<innerWidth, innerHeight, devicePixelRatio, pending, nextHandle,
          fired, cancelled, listeners, statsParent, rendererParent, scene,
          cameraAspect, renderer, cubeRotX, cubeRotY, inputPending,
          animationFrameId, phase, pc, stepLog, stepsStarted, faults,
          lastStepFaulted, disposeCalls, disposedMidStep, disposeFaulted,
          lastOp>>

\* What the controller owns and what it registered with the platform.
progVars == <<pending, cancelled, listeners, statsParent, rendererParent,
              scene, cameraAspect, renderer, cubeRotX, cubeRotY,
              inputPending, animationFrameId, pc, stepLog>>

NoParent == "none"

\* --------------------------------------------------------- pure helpers
RECURSIVE GCD(_, _)
GCD(a, b) == IF b = 0 THEN a ELSE GCD(b, a % b)

\* window.innerWidth / window.innerHeight, as a fraction in lowest terms.
Aspect(w, h) == <<w \div GCD(w, h), h \div GCD(w, h)>>

\* Math.floor(n * pixelRatio), the ratio counted in halves.
Scale(n, ratio) == (n * ratio) \div 2

\* WebGLRenderer.setSize(w, h): the canvas is w x h times the renderer's own
\* pixel ratio.
SetSize(r, w, h) ==
  [r EXCEPT !.width = w, !.height = h,
            !.canvasWidth = Scale(w, r.pixelRatio),
            !.canvasHeight = Scale(h, r.pixelRatio)]

\* WebGLRenderer.setPixelRatio(v): stores v and resizes the canvas.
SetPixelRatio(r, v) ==
  SetSize([r EXCEPT !.pixelRatio = v], r.width, r.height)

\* new WebGLRenderer(): pixel ratio 1, not yet sized.
NewRenderer ==
  [width |-> 0, height |-> 0, pixelRatio |-> 2,
   canvasWidth |-> 0, canvasHeight |-> 0, disposed |-> FALSE]

\* init(): setSize, then setPixelRatio(window.devicePixelRatio).
InitRenderer(w, h, dpr) == SetPixelRatio(SetSize(NewRenderer, w, h), dpr)

createLights(s) == Append(Append(s, "AmbientLight"), "DirectionalLight")

\* Variant: the ground plane is added before the cube.
createGeometryPlaneFirst(s) == Append(Append(s, "plane"), "cube")
createGeometry(s) == Append(Append(s, "cube"), "plane")

\* cube.rotation += 0.01
RotationIncrement == 1
\* Variant: two increments per step.
RotateCubeTwice(r) == r + 2 * RotationIncrement
RotateCube(r) == r + RotationIncrement

\* The statements of animate(), in program order.
\* Variants: the reschedule as the last statement; frame end before render.
AnimateOrderScheduleLast ==
  <<"begin", "rotate", "update", "render", "end", "schedule">>
AnimateOrderEndBeforeRender ==
  <<"schedule", "begin", "rotate", "update", "end", "render">>
AnimateOrder == <<"schedule", "begin", "rotate", "update", "render", "end">>

\* The statements of animate() that call into update or render work.
FaultPoints == {"update", "render"}

\* this.animationFrameId = requestAnimationFrame(...)
\* Variant: only the first handle is retained.
StoreHandleOnce(old, h) == IF old = 0 THEN h ELSE old
StoreHandle(old, h) == h

\* if (this.animationFrameId) cancelAnimationFrame(this.animationFrameId)
\* Variants: no cancellation; the test negated.
DisposeCancelsNever(id) == FALSE
DisposeCancelsInverted(id) == id = 0
DisposeCancels(id) == id # 0

\* controls.dispose() removes the listeners OrbitControls bound; nothing
\* removes the window's resize listener.
\* Variant: every listener is removed.
ListenersAfterDisposeAll(l) == {}
ListenersAfterDispose(l) == l \ {"controls"}

\* if (this.stats.dom.parentNode)
\* Variant: removeChild without the test.
StatsGuardAlways(parent) == TRUE
StatsGuard(parent) == parent # NoParent

\* --------------------------------------------------------------- Init
Init ==
  /\ innerWidth \in Dims /\ innerHeight \in Dims
  /\ devicePixelRatio \in Ratios
  /\ pending = {} /\ nextHandle = 1 /\ fired = {} /\ cancelled = {}
  /\ listeners = {}
  /\ statsParent = NoParent /\ rendererParent = NoParent
  /\ scene = <<>> /\ cameraAspect = <<0, 0>> /\ renderer = NewRenderer
  /\ cubeRotX = 0 /\ cubeRotY = 0 /\ inputPending = FALSE
  /\ animationFrameId = 0
  /\ phase = "Uninitialized" /\ pc = 0 /\ stepLog = <<>>
  /\ stepsStarted = 0 /\ faults = 0 /\ lastStepFaulted = FALSE
  /\ disposeCalls = 0 /\ disposedMidStep = FALSE /\ disposeFaulted = FALSE
  /\ lastOp = "none"

\* ------------------------------------------------------------- actions
\* new ThreeJSScene(): everything up to the call of animate().
Construct ==
  /\ phase = "Uninitialized"
  /\ scene' = createGeometry(createLights(<<>>))
  /\ cameraAspect' = Aspect(innerWidth, innerHeight)
  /\ renderer' = InitRenderer(innerWidth, innerHeight, devicePixelRatio)
  /\ rendererParent' = "app"
  /\ statsParent' = "body"
  /\ listeners' = {"controls", "resize"}
  /\ phase' = "Constructing"
  /\ pc' = 1
  /\ stepLog' = <<>>
  /\ stepsStarted' = stepsStarted + 1
  /\ lastOp' = "construct"
  /\ UNCHANGED <<innerWidth, innerHeight, devicePixelRatio, pending,
                 nextHandle, fired, cancelled, cubeRotX, cubeRotY,
                 inputPending, animationFrameId, faults, lastStepFaulted,
                 disposeCalls, disposedMidStep, disposeFaulted>>

\* One statement of animate(), run with the callback map pend and the log
\* of the step so far.
animateStmt(label, pend, log) ==
  /\ stepLog' = Append(log, label)
  /\ IF label = "schedule"
       THEN /\ pending' = pend \cup {nextHandle}
            /\ animationFrameId' = StoreHandle(animationFrameId, nextHandle)
            /\ nextHandle' = nextHandle + 1
       ELSE /\ pending' = pend
            /\ UNCHANGED <<animationFrameId, nextHandle>>
  /\ IF label = "rotate"
       THEN /\ cubeRotX' = RotateCube(cubeRotX)
            /\ cubeRotY' = RotateCube(cubeRotY)
       ELSE UNCHANGED <<cubeRotX, cubeRotY>>
  /\ IF label = "update"
       THEN inputPending' = FALSE
       ELSE UNCHANGED inputPending

\* The platform runs an outstanding animation frame callback: it takes the
\* callback out of the map and calls animate(), whose first statement runs
\* before anything else can.
animateFromFrame ==
  /\ pc = 0
  /\ stepsStarted < MaxFrames
  /\ \E h \in pending :
       /\ fired' = fired \cup {h}
       /\ animateStmt(AnimateOrder[1], pending \ {h}, <<>>)
  /\ pc' = 2
  /\ stepsStarted' = stepsStarted + 1
  /\ lastStepFaulted' = FALSE
  /\ lastOp' = "frame"
  /\ UNCHANGED <<innerWidth, innerHeight, devicePixelRatio, cancelled,
                 listeners, statsParent, rendererParent, scene,
                 cameraAspect, renderer, phase, faults, disposeCalls,
                 disposedMidStep, disposeFaulted>>

\* The next statement of the animate() call in progress.
animateNext ==
  /\ pc >= 1
  /\ animateStmt(AnimateOrder[pc], pending, stepLog)
  /\ pc' = IF pc = Len(AnimateOrder) THEN 0 ELSE pc + 1
  /\ phase' = IF pc = Len(AnimateOrder) /\ phase = "Constructing"
                THEN "Running" ELSE phase
  /\ lastOp' = "stmt"
  /\ UNCHANGED <<innerWidth, innerHeight, devicePixelRatio, fired,
                 cancelled, listeners, statsParent, rendererParent, scene,
                 cameraAspect, renderer, stepsStarted, faults,
                 lastStepFaulted, disposeCalls, disposedMidStep,
                 disposeFaulted>>

\* controls.update() or renderer.render() throws: animate() has no handler,
\* so the call unwinds (through the constructor, for the first call).
animateFault ==
  /\ pc >= 1
  /\ AnimateOrder[pc] \in FaultPoints
  /\ pc' = 0
  /\ faults' = faults + 1
  /\ lastStepFaulted' = TRUE
  /\ phase' = IF phase = "Constructing" THEN "Failed" ELSE phase
  /\ lastOp' = "fault"
  /\ UNCHANGED <<innerWidth, innerHeight, devicePixelRatio, pending,
                 nextHandle, fired, cancelled, listeners, statsParent,
                 rendererParent, scene, cameraAspect, renderer, cubeRotX,
                 cubeRotY, inputPending, animationFrameId, stepLog,
                 stepsStarted, disposeCalls, disposedMidStep,
                 disposeFaulted>>

\* The viewport changes and the platform dispatches resize to the
\* registered listener, onWindowResize().
onWindowResize ==
  /\ pc = 0
  /\ "resize" \in listeners
  /\ \E w \in Dims, h \in Dims :
       /\ <<w, h>> # <<innerWidth, innerHeight>>
       /\ innerWidth' = w
       /\ innerHeight' = h
       /\ cameraAspect' = Aspect(w, h)
       /\ renderer' = SetSize(renderer, w, h)
  /\ lastOp' = "resize"
  /\ UNCHANGED <<devicePixelRatio, pending, nextHandle, fired, cancelled,
                 listeners, statsParent, rendererParent, scene, cubeRotX,
                 cubeRotY, inputPending, animationFrameId, phase, pc,
                 stepLog, stepsStarted, faults, lastStepFaulted,
                 disposeCalls, disposedMidStep, disposeFaulted>>

\* window.devicePixelRatio changes (the window moves to another display);
\* no code of the controller listens for it.
DevicePixelRatioChange ==
  /\ pc = 0
  /\ phase # "Uninitialized"
  /\ \E d \in Ratios \ {devicePixelRatio} : devicePixelRatio' = d
  /\ lastOp' = "dpr"
  /\ UNCHANGED <<innerWidth, innerHeight, pending, nextHandle, fired,
                 cancelled, listeners, statsParent, rendererParent, scene,
                 cameraAspect, renderer, cubeRotX, cubeRotY, inputPending,
                 animationFrameId, phase, pc, stepLog, stepsStarted,
                 faults, lastStepFaulted, disposeCalls, disposedMidStep,
                 disposeFaulted>>

\* A pointer or wheel event reaches the listeners OrbitControls bound.
ControlsInput ==
  /\ pc = 0
  /\ "controls" \in listeners
  /\ ~inputPending
  /\ inputPending' = TRUE
  /\ lastOp' = "input"
  /\ UNCHANGED <<innerWidth, innerHeight, devicePixelRatio, pending,
                 nextHandle, fired, cancelled, listeners, statsParent,
                 rendererParent, scene, cameraAspect, renderer, cubeRotX,
                 cubeRotY, animationFrameId, phase, pc, stepLog,
                 stepsStarted, faults, lastStepFaulted, disposeCalls,
                 disposedMidStep, disposeFaulted>>

\* dispose(), on a controller whose constructor has returned.
dispose ==
  /\ phase = "Running"
  /\ disposeCalls < MaxDisposeCalls
  /\ IF DisposeCancels(animationFrameId)
       THEN /\ pending' = pending \ {animationFrameId}
            /\ cancelled' = cancelled \cup {animationFrameId}
       ELSE UNCHANGED <<pending, cancelled>>
  /\ listeners' = ListenersAfterDispose(listeners)
  /\ renderer' = [renderer EXCEPT !.disposed = TRUE]
  /\ IF StatsGuard(statsParent)
       THEN IF statsParent = NoParent
              THEN /\ disposeFaulted' = TRUE
                   /\ UNCHANGED statsParent
              ELSE /\ statsParent' = NoParent
                   /\ UNCHANGED disposeFaulted
       ELSE UNCHANGED <<statsParent, disposeFaulted>>
  /\ disposeCalls' = disposeCalls + 1
  /\ disposedMidStep' = IF disposeCalls = 0 THEN pc # 0 ELSE disposedMidStep
  /\ lastOp' = IF lastOp \in {"dispose", "dispose2"}
                 THEN "dispose2" ELSE "dispose"
  /\ UNCHANGED <<innerWidth, innerHeight, devicePixelRatio, nextHandle,
                 fired, rendererParent, scene, cameraAspect, cubeRotX,
                 cubeRotY, inputPending, animationFrameId, phase, pc,
                 stepLog, stepsStarted, faults, lastStepFaulted>>

Next ==
  \/ Construct
  \/ animateFromFrame
  \/ animateNext
  \/ animateFault
  \/ onWindowResize
  \/ DevicePixelRatioChange
  \/ ControlsInput
  \/ dispose

Spec == Init /\ [][Next]_vars

\* ------------------------------------------------------------ properties
Range(s) == {s[i] : i \in DOMAIN s}
IsPrefix(s, t) == Len(s) <= Len(t) /\ s = SubSeq(t, 1, Len(s))
Disposed == disposeCalls > 0
Idle == pc = 0

\* C1: once dispose() has been called on a constructed controller, no
\* animate() call starts again, whether dispose() ran between two frames or
\* from inside a step in progress (which still runs to its end).
C1_NoStepAfterDispose == [][Disposed => stepsStarted' = stepsStarted]_vars

\* dispose() ran inside a step, that step has finished, and frames remain.
C1_Witness ==
  /\ Disposed /\ disposedMidStep /\ Idle
  /\ Len(stepLog) = Len(AnimateOrder)
  /\ stepsStarted >= 2 /\ stepsStarted < MaxFrames

\* C2: while the controller is constructed and not disposed, exactly one
\* animation frame callback is outstanding, animationFrameId is its handle
\* and not the handle of a callback that has fired, and a step begins only
\* when no step is in progress.
C2_SingleOutstanding ==
  /\ [](phase = "Running" /\ ~Disposed =>
          /\ pending = {animationFrameId}
          /\ animationFrameId \notin fired)
  /\ [][stepsStarted' # stepsStarted => Idle]_vars

\* In the middle of the third step or later, not disposed.
C2_Witness ==
  /\ phase = "Running" /\ ~Disposed
  /\ stepsStarted >= 3 /\ pc = 4
  /\ Cardinality(fired) >= 2

\* C3: a dispose() call that directly follows a dispose() call does not
\* fault and changes nothing of the controller, the schedule, the
\* listeners, the rendering surface or the page.
C3_SecondDisposeNoOp ==
  [][(disposeCalls' # disposeCalls /\ lastOp' = "dispose2") =>
       (UNCHANGED progVars /\ ~disposeFaulted')]_vars

\* Two dispose() calls in succession have run.
C3_Witness ==
  /\ disposeCalls = 2 /\ lastOp = "dispose2"
  /\ ~disposeFaulted /\ statsParent = NoParent

\* C4: dispose() cancels the retained handle exactly when it is non-zero,
\* releases the orbit controls and the renderer, and leaves the stats
\* element without a parent.
C4_DisposeReleases ==
  /\ [][disposeCalls' # disposeCalls =>
          /\ pending' = IF animationFrameId # 0
                          THEN pending \ {animationFrameId} ELSE pending
          /\ cancelled' = IF animationFrameId # 0
                            THEN cancelled \cup {animationFrameId}
                            ELSE cancelled
          /\ "controls" \notin listeners'
          /\ renderer'.disposed
          /\ statsParent' = NoParent]_vars
  /\ [](Disposed => statsParent = NoParent)

\* The first dispose() has run, with a callback outstanding before it.
C4_Witness ==
  /\ disposeCalls = 1 /\ lastOp = "dispose"
  /\ animationFrameId \in cancelled /\ animationFrameId \notin fired
  /\ renderer.disposed /\ statsParent = NoParent

\* C5: after onWindowResize() at W x H (on a constructed controller, no
\* step having faulted) the camera aspect is W/H and the canvas is W x H
\* scaled by the device pixel ratio in force at the resize.
C5_ResizeUsesActiveRatio ==
  (lastOp = "resize" /\ phase = "Running" /\ faults = 0) =>
    /\ cameraAspect = Aspect(innerWidth, innerHeight)
    /\ renderer.canvasWidth = Scale(innerWidth, devicePixelRatio)
    /\ renderer.canvasHeight = Scale(innerHeight, devicePixelRatio)

\* C6: the cube's rotation on x and on y is one increment per animate()
\* call whose rotation statement has run, the two are equal, and nothing
\* but the number of steps decides it.
C6_RotationCountsSteps ==
  /\ cubeRotX = cubeRotY
  /\ cubeRotX = RotationIncrement *
       (IF ~Idle /\ "rotate" \notin Range(stepLog)
          THEN stepsStarted - 1 ELSE stepsStarted)

\* Three steps have run and a resize came after them.
C6_Witness ==
  /\ Idle /\ stepsStarted = 3 /\ cubeRotX = 3 /\ lastOp = "resize"

\* C7: from construction on, the scene graph is the ambient light, the
\* directional light, the cube and the ground plane, in that order.
C7_SceneGraphFixed ==
  phase # "Uninitialized" =>
    scene = <<"AmbientLight", "DirectionalLight", "cube", "plane">>

\* Steps, a dispose() and a resize have all happened.
C7_Witness ==
  /\ Disposed /\ stepsStarted >= 2 /\ lastOp = "resize" /\ Len(scene) = 4

\* C8 (as claimed): the step's effects are frame start, rotation, controls
\* update, render, frame end, and the reschedule last.
ClaimedStepOrder ==
  <<"begin", "rotate", "update", "render", "end", "schedule">>
C8_RescheduleLast == IsPrefix(stepLog, ClaimedStepOrder)

\* C8 (amended): the reschedule, with the handle retained, is the first
\* effect of the step; frame start, rotation, controls update, render and
\* frame end follow in that order.
ObservedStepOrder ==
  <<"schedule", "begin", "rotate", "update", "render", "end">>
C8_RescheduleFirst ==
  /\ IsPrefix(stepLog, ObservedStepOrder)
  /\ ~Idle => Len(stepLog) = pc - 1
  /\ (Idle /\ stepsStarted > 0 /\ ~lastStepFaulted) =>
       stepLog = ObservedStepOrder

\* A step after the first has run to its end.
C8_Witness ==
  /\ Idle /\ stepsStarted >= 2 /\ ~lastStepFaulted
  /\ stepLog = ObservedStepOrder

\* C9 (as claimed): after a step of a constructed controller has faulted no
\* further step runs.
C9_FaultEndsLoop ==
  [][(faults > 0 /\ phase = "Running") => stepsStarted' = stepsStarted]_vars

\* C9 (amended): a fault in update or render work skips the rest of that
\* step only; the callback requested at the top of the step is still
\* outstanding, so unless dispose() was called the loop goes on.
C9_FaultKeepsLoop ==
  (lastStepFaulted /\ Idle /\ ~Disposed) =>
    /\ pending = {animationFrameId}
    /\ animationFrameId \notin fired
    /\ "end" \notin Range(stepLog)

\* A step ran after a faulted one and faulted again.
C9_Witness ==
  /\ faults >= 2 /\ lastStepFaulted /\ Idle /\ ~Disposed
  /\ phase = "Running"

\* C10: dispose() leaves the resize listener registered: after it, the
\* resize listener is the only handler of the controller the platform can
\* still call, and a resize still writes the camera aspect and the size of
\* the disposed renderer.
C10_ResizeSurvivesDispose ==
  /\ [](Disposed => listeners = {"resize"} /\ pending = {})
  /\ [][(Disposed /\ <<innerWidth, innerHeight>>' # <<innerWidth, innerHeight>>)
          => /\ lastOp' = "resize"
             /\ renderer.disposed
             /\ cameraAspect' = Aspect(innerWidth', innerHeight')
             /\ renderer'.width = innerWidth'
             /\ renderer'.height = innerHeight'
             /\ renderer'.canvasWidth = Scale(innerWidth', renderer.pixelRatio)
             /\ renderer'.canvasHeight = Scale(innerHeight', renderer.pixelRatio)]_vars
  /\ [][(Disposed /\ Idle) =>
          lastOp' \in {"resize", "dpr", "dispose", "dispose2"}]_vars

\* A resize has run on a disposed controller and changed the aspect.
C10_Witness ==
  /\ Disposed /\ lastOp = "resize" /\ renderer.disposed
  /\ renderer.width = innerWidth /\ renderer.height = innerHeight
  /\ cameraAspect = Aspect(innerWidth, innerHeight)
  /\ cameraAspect # <<1, 1>>

====
